---- MODULE Spec2Model ----
(***************************************************************************)
(* Model of scripts/t265_avoidance.py: the startup connection sequence,    *)
(* the frame acquisition loop (pose transform and stereo distance fill),   *)
(* the three periodic sender jobs of the BackgroundScheduler, the ATTITUDE *)
(* and STATUSTEXT listeners, the scale calibration thread and the shutdown *)
(* path, all sharing module globals.                                       *)
(*                                                                         *)
(* Units: lengths of pose samples are integers in centimetres, angles are  *)
(* integers in quarter turns (90 degrees), disparities are the raw int16   *)
(* output of StereoSGBM (sixteenths of a pixel).  Python floats are        *)
(* records [k, v] so that nan and inf entered at the scale prompt exist.   *)
(***************************************************************************)
EXTENDS Integers, Sequences, FiniteSets, TLC

\* ------------------------------------------------------------------ bounds

\* Frame sets delivered by pipe.wait_for_frames() before the camera goes quiet.
MaxFrames == 2

\* Failed connect() attempts counted by the model (later ones change nothing).
MaxRetries == 2

\* Stereo baseline of the camera, -T[0] of the left-to-right extrinsics, in mm.
BaselineMm == 64

\* ------------------------------------------------------- program constants

NumSectors == 72
CenterFirst == 33
CenterEnd == 38
DistMin == 10
DistMax == 65
SampleColumn == 150
SampleStep == 4
stereo_height_px == 300
min_disp == 16
max_disp == 112
DispScale == 16
UInt16Mod == 65536

\* Python's None, as a record so that it compares with every other value.
\* The default home of lines 85-87: degrees * 1e7 and millimetres.
home_lat == 151269321
home_lon == 16624301
home_alt == 163000

None == [none |-> TRUE]

\* ------------------------------------------------------------------ floats

F(n) == [k |-> "fin", v |-> n]
NaN == [k |-> "nan", v |-> 0]
Inf(s) == [k |-> "inf", v |-> s]

Sgn(n) == IF n > 0 THEN 1 ELSE IF n < 0 THEN -1 ELSE 0

FMul(a, b) ==
  IF a.k = "nan" \/ b.k = "nan" THEN NaN
  ELSE IF a.k = "fin" /\ b.k = "fin" THEN F(a.v * b.v)
  ELSE IF a.v = 0 \/ b.v = 0 THEN NaN
  ELSE Inf(Sgn(a.v) * Sgn(b.v))

FAdd(a, b) ==
  IF a.k = "nan" \/ b.k = "nan" THEN NaN
  ELSE IF a.k = "fin" /\ b.k = "fin" THEN F(a.v + b.v)
  ELSE IF a.k = "fin" THEN b
  ELSE IF b.k = "fin" THEN a
  ELSE IF a.v = b.v THEN a
  ELSE NaN

FNeg(a) == IF a.k = "nan" THEN NaN ELSE [k |-> a.k, v |-> -a.v]

\* a > 0 as Python evaluates it (False for nan).
FPositive(a) == a.k # "nan" /\ a.v > 0

\* ---------------------------------------------------------------- matrices

\* A 4x4 numpy array of floats: a tuple of four rows of four floats.
IntMatrix(m) == [i \in 1..4 |-> [j \in 1..4 |-> F(m[i][j])]]

Identity4 ==
  IntMatrix(<< <<1, 0, 0, 0>>, <<0, 1, 0, 0>>, <<0, 0, 1, 0>>, <<0, 0, 0, 1>> >>)

\* numpy.ndarray.dot of two 4x4 arrays.
Dot(A, B) ==
  [i \in 1..4 |-> [j \in 1..4 |->
     FAdd(FAdd(FMul(A[i][1], B[1][j]), FMul(A[i][2], B[2][j])),
          FAdd(FMul(A[i][3], B[3][j]), FMul(A[i][4], B[4][j])))]]

\* numpy.linalg.inv of a rigid transform [R t; 0 1]: [R^T  -R^T t; 0 1].
Inv(A) ==
  [i \in 1..4 |-> [j \in 1..4 |->
     IF i = 4 THEN A[4][j]
     ELSE IF j < 4 THEN A[j][i]
     ELSE FNeg(FAdd(FAdd(FMul(A[1][i], A[1][4]), FMul(A[2][i], A[2][4])),
                    FMul(A[3][i], A[3][4])))]]

SetTranslation(A, x, y, z) ==
  [A EXCEPT ![1][4] = x, ![2][4] = y, ![3][4] = z]

CosQ(q) == LET r == q % 4 IN IF r = 0 THEN 1 ELSE IF r = 2 THEN -1 ELSE 0
SinQ(q) == LET r == q % 4 IN IF r = 1 THEN 1 ELSE IF r = 3 THEN -1 ELSE 0

\* transformations.euler_matrix(0, 0, yaw, 'sxyz'): a rotation about z.
YawMatrix(q) ==
  IntMatrix(<< <<CosQ(q), -SinQ(q), 0, 0>>,
               <<SinQ(q), CosQ(q), 0, 0>>,
               <<0, 0, 1, 0>>,
               <<0, 0, 0, 1>> >>)

\* transformations.quaternion_matrix([w, x, y, z]); q is <<w, x, y, z>> and
\* is normalised by the function itself (q *= sqrt(2 / n), then outer(q, q)).
quaternion_matrix(q) ==
  LET n == q[1] * q[1] + q[2] * q[2] + q[3] * q[3] + q[4] * q[4]
      o(a, b) == (2 * q[a + 1] * q[b + 1]) \div n
  IN IF n = 0 THEN Identity4
     ELSE IntMatrix(
       << <<1 - o(2, 2) - o(3, 3), o(1, 2) - o(3, 0), o(1, 3) + o(2, 0), 0>>,
          <<o(1, 2) + o(3, 0), 1 - o(1, 1) - o(3, 3), o(2, 3) - o(1, 0), 0>>,
          <<o(1, 3) - o(2, 0), o(2, 3) + o(1, 0), 1 - o(1, 1) - o(2, 2), 0>>,
          <<0, 0, 0, 1>> >>)

\* transformations.euler_from_matrix(M, 'sxyz') for a rotation block whose
\* entries are -1, 0 or 1, in quarter turns; nan as soon as an entry is not
\* finite (math.atan2 of nan).
Atan2Q(y, x) ==
  IF y = 0 /\ x >= 0 THEN 0
  ELSE IF y = 0 THEN 2
  ELSE IF y > 0 THEN 1
  ELSE -1

euler_from_matrix(M) ==
  IF \E i \in 1..3, j \in 1..3 : M[i][j].k # "fin"
  THEN <<NaN, NaN, NaN>>
  ELSE LET e(i, j) == M[i][j].v
           cy2 == e(1, 1) * e(1, 1) + e(2, 1) * e(2, 1)
       IN IF cy2 > 0
          THEN <<F(Atan2Q(e(3, 2), e(3, 3))),
                 F(Atan2Q(-e(3, 1), 1)),
                 F(Atan2Q(e(2, 1), e(1, 1)))>>
          ELSE <<F(Atan2Q(-e(2, 3), e(2, 2))),
                 F(Atan2Q(-e(3, 1), 0)),
                 F(0)>>

\* ------------------------------------------------- fixed mount transforms

H_aeroRef_T265Ref ==
  IntMatrix(<< <<0, 0, -1, 0>>, <<1, 0, 0, 0>>, <<0, -1, 0, 0>>, <<0, 0, 0, 1>> >>)

\* camera_orientation 0: forward; 1: downfacing; anything else: forward.
H_T265body_aeroBody(camera_orientation) ==
  IF camera_orientation = 1
  THEN IntMatrix(<< <<0, 1, 0, 0>>, <<1, 0, 0, 0>>, <<0, 0, -1, 0>>, <<0, 0, 0, 1>> >>)
  ELSE Inv(H_aeroRef_T265Ref)

\* body_offset_x, body_offset_y, body_offset_z (0.05 m, 0, 0) in centimetres.
body_offset == <<5, 0, 0>>

\* H_body_camera: euler_matrix(0, 0, 0) with the body offset as translation.
H_body_camera ==
  SetTranslation(Identity4, F(body_offset[1]), F(body_offset[2]), F(body_offset[3]))

\* ------------------------------------------------------------ stereo depth

RECURSIVE ISqrtIn(_, _, _)
ISqrtIn(n, lo, hi) ==
  IF lo >= hi THEN lo
  ELSE LET mid == (lo + hi + 1) \div 2
       IN IF mid * mid <= n THEN ISqrtIn(n, mid, hi) ELSE ISqrtIn(n, lo, mid - 1)

\* floor(sqrt(n)) for 0 <= n < 2^30.
ISqrt(n) == ISqrtIn(n, 0, 32767)

\* What StereoSGBM writes where it finds no valid match: (minDisparity - 1),
\* in sixteenths of a pixel.
RawInvalid == (min_disp - 1) * DispScale

\* A scene is the raw disparity image after the crop disparity[:, max_disp:]
\* (300 rows by 300 columns): uniform, or two values split at a row or at a
\* column.
SceneRaw(scene, row, col) ==
  IF scene.kind = "rows" THEN (IF row < scene.edge THEN scene.a ELSE scene.b)
  ELSE IF scene.kind = "cols" THEN (IF col < scene.edge THEN scene.a ELSE scene.b)
  ELSE scene.a

\* Norm, in centimetres, of cv2.reprojectImageTo3D(disparity, Q)[row, col]:
\* Q maps (col, row, d) to (col - cx, row - cy, f) / (d / baseline) with
\* cx = cy = (stereo_height_px - 1) / 2 and f = stereo_height_px / 2.  The
\* square root is taken in fixed point (1/50 of half a pixel).
PointNormCm(raw, row, col) ==
  LET dx == 2 * col - (stereo_height_px - 1)
      dy == 2 * row - (stereo_height_px - 1)
      n2 == dx * dx + dy * dy + stereo_height_px * stereo_height_px
      s50 == ISqrt(2500 * n2)
  IN (BaselineMm * 4 * s50) \div (250 * raw)

\* The cast of a non-negative float to the array's uint16 element type.
ToUInt16(x) == x % UInt16Mod

\* Lines 583 and 691: the rectified images are max_disp pixels wider than
\* high, and the crop disparity[:, max_disp:] removes those columns again.
stereo_width_px == stereo_height_px + max_disp

GridRows == stereo_height_px

GridCols == stereo_width_px - max_disp

\* The index points_3D[i * 4, 150, :] of line 698: the first index of the
\* array is the image row, the second the image column.
SampledPixel(i) == [row |-> i * SampleStep, col |-> SampleColumn]

\* Line 698: distances[i] = norm(points_3D[i * 4, 150, :]) * 100.
SectorDistance(scene, i) ==
  LET row == SampledPixel(i).row
      col == SampledPixel(i).col
  IN ToUInt16(PointNormCm(SceneRaw(scene, row, col), row, col))

\* The mean as it would be over distances[32:37].
CenterMeanShifted(d) ==
  (d[32] + d[33] + d[34] + d[35] + d[36]) \div (CenterEnd - CenterFirst)

\* int(np.mean(distances[33:38])) of line 295.
CenterMean(d) ==
  (d[33] + d[34] + d[35] + d[36] + d[37]) \div (CenterEnd - CenterFirst)

\* -------------------------------------------------------------- operator

Digits == <<"0", "1", "2", "3", "4", "5", "6", "7", "8", "9">>

DigitValue(c) == CHOOSE d \in 0..9 : Digits[d + 1] = c

IsDigit(c) == \E d \in 0..9 : Digits[d + 1] = c

RECURSIVE DecimalValue(_)
DecimalValue(cs) ==
  IF cs = <<>> THEN 0
  ELSE 10 * DecimalValue(SubSeq(cs, 1, Len(cs) - 1)) + DigitValue(cs[Len(cs)])

ValueError == [k |-> "ValueError", v |-> 0]

\* float(line) of line 436, on lines of an optional sign followed by decimal
\* digits, nan or inf; anything else raises ValueError.
ParseFloat(line) ==
  LET neg == line # <<>> /\ line[1] = "-"
      signed == line # <<>> /\ line[1] \in {"-", "+"}
      body == IF signed THEN Tail(line) ELSE line
      sign == IF neg THEN -1 ELSE 1
  IN IF body = <<"n", "a", "n">> THEN NaN
     ELSE IF body = <<"i", "n", "f">> THEN Inf(sign)
     ELSE IF body # <<>> /\ \A p \in 1..Len(body) : IsDigit(body[p])
     THEN F(sign * DecimalValue(body))
     ELSE ValueError

\* -------------------------------------------------------------------- state

VARIABLES
  st,                  \* the STATUSTEXT listener: its position, the text, what it sent
  pc,                  \* position of the main thread
  cfg,                 \* body_offset_enabled, compass_enabled, camera_orientation, scale_calib_enable
  pipe,                \* the RealSense pipeline: "none", "started", "stopped"
  vehicle,             \* the dronekit vehicle: "none", "connected", "closed"
  attempts,            \* failed connect() attempts so far (capped at MaxRetries)
  listeners,           \* message listeners registered on the vehicle
  sched,               \* the BackgroundScheduler: "none", "running"
  scale_thread,        \* the scale_update thread: "none", "running", "dead"
  clock,               \* frame sets delivered so far; also the wall clock
  frames,              \* the frame set being processed
  i,                   \* index of the distance fill loop
  current_time,
  data,
  H_T265Ref_T265body,
  H_aeroRef_aeroBody,  \* None or [m: matrix, frame, stage]
  heading_north_yaw,   \* None or [yaw: quarter turns]
  scale_factor,
  current_confidence,  \* None or [level]
  distances,
  vp,                  \* send_vision_position_message in progress
  cf,                  \* send_confidence_level_dummy_message in progress
  link                 \* last message of each kind handed to vehicle.send_mavlink

vars ==
  <<st, pc, cfg, pipe, vehicle, attempts, listeners, sched, scale_thread, clock, frames, i, current_time, data, H_T265Ref_T265body,
    H_aeroRef_aeroBody, heading_north_yaw, scale_factor, current_confidence,
    distances, vp, cf, link>>

Sectors == 0..(NumSectors - 1)

VpIdle == [pc |-> "idle"]
CfIdle == [pc |-> "idle", prev |-> None, cur |-> None, text |-> FALSE]

StIdle == [pc |-> "idle", text |-> "", sent |-> <<>>]

\* The module-level assignments of lines 73-100 and 480, for a command line
\* and settings drawn from Configs.
InitWith(Configs) ==
  /\ cfg \in Configs
  /\ st = StIdle
  /\ pc = "realsense_connect"
  /\ pipe = "none"
  /\ vehicle = "none"
  /\ attempts = 0
  /\ listeners = {}
  /\ sched = "none"
  /\ scale_thread = "none"
  /\ clock = 0
  /\ frames = None
  /\ i = 0
  /\ current_time = 0
  /\ data = None
  /\ H_T265Ref_T265body = None
  /\ H_aeroRef_aeroBody = None
  /\ heading_north_yaw = None
  /\ scale_factor = F(1)
  /\ current_confidence = None
  /\ distances = [s \in Sectors |-> 0]
  /\ vp = VpIdle
  /\ cf = CfIdle
  /\ link = [vision |-> None, distance |-> None, delta |-> None, statustext |-> None]

\* ------------------------------------------------------------------ startup

\* realsense_connect(), called once at line 483 outside any try.
RealsenseConnect ==
  /\ pc = "realsense_connect"
  /\ \E outcome \in {"ok", "error", "interrupt"} :
       /\ pipe' = IF outcome = "ok" THEN "started" ELSE "none"
       /\ pc' = IF outcome = "ok" THEN "vehicle_connect"
                ELSE IF outcome = "error" THEN "crashed"
                ELSE "interrupted"
  /\ UNCHANGED <<st, cfg, vehicle, attempts, listeners, sched, scale_thread, clock, frames, i, current_time, data,
                 H_T265Ref_T265body, H_aeroRef_aeroBody, heading_north_yaw,
                 scale_factor, current_confidence, distances, vp, cf, link>>

\* One pass of "while (not vehicle_connect()): pass".
VehicleConnect ==
  /\ pc = "vehicle_connect"
  /\ \E outcome \in {"ok", "error", "interrupt"} :
       /\ vehicle' = IF outcome = "ok" THEN "connected" ELSE vehicle
       /\ pipe' = IF outcome = "interrupt" THEN "stopped" ELSE pipe
       /\ attempts' = IF outcome = "error" /\ attempts < MaxRetries
                      THEN attempts + 1 ELSE attempts
       /\ pc' = IF outcome = "ok" THEN "setup"
                ELSE IF outcome = "error" THEN "vehicle_connect"
                ELSE "interrupted"
  /\ UNCHANGED <<st, cfg, listeners, sched, scale_thread, clock,
                 frames, i, current_time, data, H_T265Ref_T265body,
                 H_aeroRef_aeroBody, heading_north_yaw, scale_factor,
                 current_confidence, distances, vp, cf, link>>

\* Lines 491-516: listeners, the shared globals, the jobs, the scale thread,
\* sched.start().
Setup ==
  /\ pc = "setup"
  /\ listeners' = {"STATUSTEXT"} \cup
                  (IF cfg.compass_enabled = 1 THEN {"ATTITUDE"} ELSE {})
  /\ data' = None
  /\ current_confidence' = None
  /\ H_aeroRef_aeroBody' = None
  /\ heading_north_yaw' = None
  /\ scale_thread' = IF cfg.scale_calib_enable THEN "running" ELSE "none"
  /\ sched' = "running"
  /\ pc' = "wait_frames"
  /\ UNCHANGED <<st, cfg, pipe, vehicle, attempts, clock, frames,
                 i, current_time, H_T265Ref_T265body, scale_factor, distances,
                 vp, cf, link>>

\* -------------------------------------------------------- acquisition loop

\* Line 625: pipe.wait_for_frames() returns a frame set with or without a
\* pose frame (line 628) and the two fisheye images of a scene.
WaitForFrames(Samples, Scenes) ==
  /\ pc = "wait_frames"
  /\ pipe = "started"
  /\ clock < MaxFrames
  /\ \E p \in Samples \cup {None}, s \in Scenes :
       /\ frames' = [pose |-> p, scene |-> s]
       /\ pc' = IF p # None THEN "pose_time" ELSE "fisheye"
  /\ clock' = clock + 1
  /\ UNCHANGED <<st, cfg, pipe, vehicle, attempts, listeners, sched, scale_thread,
                 i, current_time, data, H_T265Ref_T265body,
                 H_aeroRef_aeroBody, heading_north_yaw, scale_factor,
                 current_confidence, distances, vp, cf, link>>

\* Line 633: current_time = int(round(time.time() * 1000000)).
PoseTime ==
  /\ pc = "pose_time"
  /\ current_time' = clock
  /\ pc' = "pose_data"
  /\ UNCHANGED <<st, cfg, pipe, vehicle, attempts, listeners, sched, scale_thread,
                 clock, frames, i, data, H_T265Ref_T265body,
                 H_aeroRef_aeroBody, heading_north_yaw, scale_factor,
                 current_confidence, distances, vp, cf, link>>

\* Line 636: data = pose.get_pose_data().
PoseData ==
  /\ pc = "pose_data"
  /\ data' = frames.pose
  /\ pc' = "pose_tx"
  /\ UNCHANGED <<st, cfg, pipe, vehicle, attempts, listeners, sched, scale_thread,
                 clock, frames, i, current_time,
                 H_T265Ref_T265body, H_aeroRef_aeroBody, heading_north_yaw,
                 scale_factor, current_confidence, distances, vp, cf, link>>

\* Lines 639-640: the rotation of the sample, and x scaled by the scale
\* factor as it is now.
PoseTx ==
  /\ pc = "pose_tx"
  /\ H_T265Ref_T265body' =
       [quaternion_matrix(data.rotation)
          EXCEPT ![1][4] = FMul(F(data.translation[1]), scale_factor)]
  /\ pc' = "pose_ty"
  /\ UNCHANGED <<st, cfg, pipe, vehicle, attempts, listeners, sched, scale_thread,
                 clock, frames, i, current_time, data,
                 H_aeroRef_aeroBody, heading_north_yaw, scale_factor,
                 current_confidence, distances, vp, cf, link>>

\* Line 641.
PoseTy ==
  /\ pc = "pose_ty"
  /\ H_T265Ref_T265body' =
       [H_T265Ref_T265body
          EXCEPT ![2][4] = FMul(F(data.translation[2]), scale_factor)]
  /\ pc' = "pose_tz"
  /\ UNCHANGED <<st, cfg, pipe, vehicle, attempts, listeners, sched, scale_thread,
                 clock, frames, i, current_time, data,
                 H_aeroRef_aeroBody, heading_north_yaw, scale_factor,
                 current_confidence, distances, vp, cf, link>>

\* Line 642.
PoseTz ==
  /\ pc = "pose_tz"
  /\ H_T265Ref_T265body' =
       [H_T265Ref_T265body
          EXCEPT ![3][4] = FMul(F(data.translation[3]), scale_factor)]
  /\ pc' = "pose_mount"
  /\ UNCHANGED <<st, cfg, pipe, vehicle, attempts, listeners, sched, scale_thread,
                 clock, frames, i, current_time, data,
                 H_aeroRef_aeroBody, heading_north_yaw, scale_factor,
                 current_confidence, distances, vp, cf, link>>

\* The pose composed by line 645 from a camera-frame pose.
MountCompose(Hb, camera_orientation) ==
  Dot(H_aeroRef_T265Ref, Dot(Hb, H_T265body_aeroBody(camera_orientation)))

\* The pose relocated by line 654.
OffsetCompose(H) == Dot(H_body_camera, Dot(H, Inv(H_body_camera)))

\* The pose realigned by line 658.
CompassCompose(H, yaw) == Dot(H, YawMatrix(yaw))

AfterMount ==
  IF cfg.body_offset_enabled = 1 THEN "pose_offset"
  ELSE IF cfg.compass_enabled = 1 THEN "pose_compass"
  ELSE "fisheye"

\* Line 645: the first assignment of the shared pose for this sample.
PoseMount ==
  /\ pc = "pose_mount"
  /\ H_aeroRef_aeroBody' =
       [m |-> MountCompose(H_T265Ref_T265body, cfg.camera_orientation),
        frame |-> clock, stage |-> "mount"]
  /\ pc' = AfterMount
  /\ UNCHANGED <<st, cfg, pipe, vehicle, attempts, listeners, sched, scale_thread,
                 clock, frames, i, current_time, data,
                 H_T265Ref_T265body, heading_north_yaw, scale_factor,
                 current_confidence, distances, vp, cf, link>>

\* Lines 648-654: the second assignment, with the body offset enabled.
PoseOffset ==
  /\ pc = "pose_offset"
  /\ H_aeroRef_aeroBody' =
       [m |-> OffsetCompose(H_aeroRef_aeroBody.m),
        frame |-> clock, stage |-> "offset"]
  /\ pc' = IF cfg.compass_enabled = 1 THEN "pose_compass" ELSE "fisheye"
  /\ UNCHANGED <<st, cfg, pipe, vehicle, attempts, listeners, sched, scale_thread,
                 clock, frames, i, current_time, data,
                 H_T265Ref_T265body, heading_north_yaw, scale_factor,
                 current_confidence, distances, vp, cf, link>>

\* Lines 657-658: the last assignment, with the compass enabled.  With no
\* heading yet, euler_matrix(0, 0, None) raises TypeError, which leaves the
\* loop through the finally clause.
PoseCompass ==
  /\ pc = "pose_compass"
  /\ IF heading_north_yaw = None
     THEN /\ pc' = "finally"
          /\ UNCHANGED H_aeroRef_aeroBody
     ELSE /\ H_aeroRef_aeroBody' =
               [m |-> CompassCompose(H_aeroRef_aeroBody.m, heading_north_yaw.yaw),
                frame |-> clock, stage |-> "compass"]
          /\ pc' = "fisheye"
  /\ UNCHANGED <<st, cfg, pipe, vehicle, attempts, listeners, sched, scale_thread,
                 clock, frames, i, current_time, data,
                 H_T265Ref_T265body, heading_north_yaw, scale_factor,
                 current_confidence, distances, vp, cf, link>>

\* Lines 669-694: the fisheye frames, remap, stereo.compute, the crop and
\* reprojectImageTo3D, all on values local to the loop.  A frame set without
\* a fisheye frame raises (get_data() of an empty frame, line 670 or 672),
\* and no clause of the loop catches the exception.
Fisheye ==
  /\ pc = "fisheye"
  /\ IF frames.scene.kind = "missing"
     THEN /\ pc' = "finally"
          /\ UNCHANGED i
     ELSE /\ i' = 0
          /\ pc' = "fill"
  /\ UNCHANGED <<st, cfg, pipe, vehicle, attempts, listeners, sched, scale_thread,
                 clock, frames, current_time, data,
                 H_T265Ref_T265body, H_aeroRef_aeroBody, heading_north_yaw,
                 scale_factor, current_confidence, distances, vp, cf, link>>

\* Fill as it would be with lines 697-698 indented under "if pose:".
FillOnlyWithPose ==
  /\ pc = "fill"
  /\ distances' = IF frames.pose = None THEN distances
                  ELSE [distances EXCEPT ![i] = SectorDistance(frames.scene, i)]
  /\ i' = i + 1
  /\ pc' = IF i + 1 = NumSectors THEN "wait_frames" ELSE "fill"
  /\ UNCHANGED <<st, cfg, pipe, vehicle, attempts, listeners, sched, scale_thread,
                 clock, frames, current_time, data, H_T265Ref_T265body,
                 H_aeroRef_aeroBody, heading_north_yaw, scale_factor,
                 current_confidence, vp, cf, link>>

\* One iteration of lines 697-698.
Fill ==
  /\ pc = "fill"
  /\ distances' = [distances EXCEPT ![i] = SectorDistance(frames.scene, i)]
  /\ i' = i + 1
  /\ pc' = IF i + 1 = NumSectors THEN "wait_frames" ELSE "fill"
  /\ UNCHANGED <<st, cfg, pipe, vehicle, attempts, listeners, sched, scale_thread,
                 clock, frames, current_time, data,
                 H_T265Ref_T265body, H_aeroRef_aeroBody, heading_north_yaw,
                 scale_factor, current_confidence, vp, cf, link>>

\* The pcs of the acquisition loop, lines 623-698.
LoopPcs ==
  {"wait_frames", "pose_time", "pose_data", "pose_tx", "pose_ty", "pose_tz",
   "pose_mount", "pose_offset", "pose_compass", "fisheye", "fill"}

\* Lines 734-735: the operator's Ctrl-C raises KeyboardInterrupt in the main
\* thread wherever the loop is; the except clause prints and falls through
\* to the finally clause.
KeyboardInterrupt ==
  /\ pc \in LoopPcs
  /\ pc' = "interrupt_finally"
  /\ UNCHANGED <<st, cfg, pipe, vehicle, attempts, listeners, sched, scale_thread,
                 clock, frames, i, current_time, data, H_T265Ref_T265body,
                 H_aeroRef_aeroBody, heading_north_yaw, scale_factor,
                 current_confidence, distances, vp, cf, link>>

\* Line 738, pipe.stop(), reached by KeyboardInterrupt or by an exception
\* that no clause catches.
Finally ==
  /\ pc \in {"finally", "interrupt_finally"}
  /\ pipe' = "stopped"
  /\ pc' = IF pc = "finally" THEN "close" ELSE "interrupt_close"
  /\ UNCHANGED <<st, cfg, vehicle, attempts, listeners, sched, scale_thread, clock,
                 frames, i, current_time, data, H_T265Ref_T265body,
                 H_aeroRef_aeroBody, heading_north_yaw, scale_factor,
                 current_confidence, distances, vp, cf, link>>

\* Line 739, vehicle.close(); then the uncaught exception ends the process,
\* or after an interrupt the script runs off its end.  The scheduler is
\* never shut down.
VehicleClose ==
  /\ pc \in {"close", "interrupt_close"}
  /\ vehicle' = "closed"
  /\ pc' = IF pc = "close" THEN "crashed" ELSE "interrupted"
  /\ UNCHANGED <<st, cfg, pipe, attempts, listeners, sched, scale_thread, clock,
                 frames, i, current_time, data, H_T265Ref_T265body,
                 H_aeroRef_aeroBody, heading_north_yaw, scale_factor,
                 current_confidence, distances, vp, cf, link>>

\* ------------------------------------------------------------ sender jobs

\* The scheduler's jobs fire while the process lives.
Running == sched = "running" /\ pc \notin {"crashed", "interrupted"}

\* The frame set whose fill loop last wrote sector s (0: the zeros of line 100).
SectorWriter(s) ==
  IF clock = 0 \/ pc = "wait_frames" \/ (pc = "fill" /\ s < i) THEN clock
  ELSE clock - 1

CenterSectors == CenterFirst..(CenterEnd - 1)

\* send_distance_sensor_message, lines 291-309: the slice is read and
\* averaged by one numpy call, then encoded and sent.
send_distance_sensor_message ==
  /\ Running
  /\ link' = [link EXCEPT !.distance =
       [min_distance |-> DistMin,
        max_distance |-> DistMax,
        current_distance |-> CenterMean(distances),
        read |-> [s \in CenterSectors |-> distances[s]],
        writers |-> {SectorWriter(s) : s \in CenterSectors},
        clock |-> clock]]
  /\ UNCHANGED <<st, pc, cfg, pipe, vehicle, attempts, listeners, sched,
                 scale_thread, clock, frames, i,
                 current_time, data, H_T265Ref_T265body, H_aeroRef_aeroBody,
                 heading_north_yaw, scale_factor, current_confidence,
                 distances, vp, cf>>

\* What a read of the global H_aeroRef_aeroBody saw: the sample and the
\* assignment that produced it.
Seen == [frame |-> H_aeroRef_aeroBody.frame, stage |-> H_aeroRef_aeroBody.stage]

\* Line 315: the job does nothing while no pose has been published.
VpCheck ==
  /\ Running
  /\ vp.pc = "idle"
  /\ vp' = IF H_aeroRef_aeroBody = None THEN vp ELSE [pc |-> "euler"]
  /\ UNCHANGED <<st, pc, cfg, pipe, vehicle, attempts, listeners, sched,
                 scale_thread, clock, frames, i,
                 current_time, data, H_T265Ref_T265body, H_aeroRef_aeroBody,
                 heading_north_yaw, scale_factor, current_confidence,
                 distances, cf, link>>

\* Line 316: rpy_rad from the pose as it is now.
VpEuler ==
  /\ Running
  /\ vp.pc = "euler"
  /\ vp' = [pc |-> "time", rpy |-> euler_from_matrix(H_aeroRef_aeroBody.m),
            seen |-> {Seen}]
  /\ UNCHANGED <<st, pc, cfg, pipe, vehicle, attempts, listeners, sched,
                 scale_thread, clock, frames, i,
                 current_time, data, H_T265Ref_T265body, H_aeroRef_aeroBody,
                 heading_north_yaw, scale_factor, current_confidence,
                 distances, cf, link>>

\* Line 319: the first argument, current_time.
VpTime ==
  /\ Running
  /\ vp.pc = "time"
  /\ vp' = [pc |-> "x", rpy |-> vp.rpy, seen |-> vp.seen, usec |-> current_time]
  /\ UNCHANGED <<st, pc, cfg, pipe, vehicle, attempts, listeners, sched,
                 scale_thread, clock, frames, i,
                 current_time, data, H_T265Ref_T265body, H_aeroRef_aeroBody,
                 heading_north_yaw, scale_factor, current_confidence,
                 distances, cf, link>>

\* Line 320: H_aeroRef_aeroBody[0][3].
VpX ==
  /\ Running
  /\ vp.pc = "x"
  /\ vp' = [pc |-> "y", rpy |-> vp.rpy, seen |-> vp.seen \cup {Seen},
            usec |-> vp.usec, x |-> H_aeroRef_aeroBody.m[1][4]]
  /\ UNCHANGED <<st, pc, cfg, pipe, vehicle, attempts, listeners, sched,
                 scale_thread, clock, frames, i,
                 current_time, data, H_T265Ref_T265body, H_aeroRef_aeroBody,
                 heading_north_yaw, scale_factor, current_confidence,
                 distances, cf, link>>

\* Line 321: H_aeroRef_aeroBody[1][3].
VpY ==
  /\ Running
  /\ vp.pc = "y"
  /\ vp' = [pc |-> "z", rpy |-> vp.rpy, seen |-> vp.seen \cup {Seen},
            usec |-> vp.usec, x |-> vp.x, y |-> H_aeroRef_aeroBody.m[2][4]]
  /\ UNCHANGED <<st, pc, cfg, pipe, vehicle, attempts, listeners, sched,
                 scale_thread, clock, frames, i,
                 current_time, data, H_T265Ref_T265body, H_aeroRef_aeroBody,
                 heading_north_yaw, scale_factor, current_confidence,
                 distances, cf, link>>

\* Lines 322-329: H_aeroRef_aeroBody[2][3], then encode and send.
VpSend ==
  /\ Running
  /\ vp.pc = "z"
  /\ link' = [link EXCEPT !.vision =
       [usec |-> vp.usec, x |-> vp.x, y |-> vp.y,
        z |-> H_aeroRef_aeroBody.m[3][4],
        roll |-> vp.rpy[1], pitch |-> vp.rpy[2], yaw |-> vp.rpy[3],
        seen |-> vp.seen \cup {Seen}]]
  /\ vp' = VpIdle
  /\ UNCHANGED <<st, pc, cfg, pipe, vehicle, attempts, listeners, sched,
                 scale_thread, clock, frames, i,
                 current_time, data, H_T265Ref_T265body, H_aeroRef_aeroBody,
                 heading_north_yaw, scale_factor, current_confidence,
                 distances, cf>>

pose_data_confidence_level == <<"Failed", "Low", "Medium", "High">>

\* Line 335 (and the print of line 337): the job does nothing while no pose
\* data has been stored.
CfCheck ==
  /\ Running
  /\ cf.pc = "idle"
  /\ cf' = IF data = None THEN cf ELSE [cf EXCEPT !.pc = "numeric"]
  /\ UNCHANGED <<st, pc, cfg, pipe, vehicle, attempts, listeners, sched,
                 scale_thread, clock, frames, i,
                 current_time, data, H_T265Ref_T265body, H_aeroRef_aeroBody,
                 heading_north_yaw, scale_factor, current_confidence,
                 distances, vp, link>>

\* Lines 340-348: the numeric report, tracker_confidence * 100 / 3 (kept in
\* thirds of a percent).  cf.prev and cf.cur are the levels of the previous
\* and of this numeric report.
CfNumeric ==
  /\ Running
  /\ cf.pc = "numeric"
  /\ link' = [link EXCEPT !.delta = [confidence |-> data.tracker_confidence * 100]]
  /\ cf' = [pc |-> "compare", prev |-> cf.cur,
            cur |-> [level |-> data.tracker_confidence], text |-> FALSE]
  /\ UNCHANGED <<st, pc, cfg, pipe, vehicle, attempts, listeners, sched,
                 scale_thread, clock, frames, i,
                 current_time, data, H_T265Ref_T265body, H_aeroRef_aeroBody,
                 heading_north_yaw, scale_factor, current_confidence,
                 distances, vp>>

\* Line 351.
CfCompare ==
  /\ Running
  /\ cf.pc = "compare"
  /\ cf' = [cf EXCEPT !.pc =
       IF current_confidence = None
          \/ current_confidence.level # data.tracker_confidence
       THEN "store" ELSE "idle"]
  /\ UNCHANGED <<st, pc, cfg, pipe, vehicle, attempts, listeners, sched,
                 scale_thread, clock, frames, i,
                 current_time, data, H_T265Ref_T265body, H_aeroRef_aeroBody,
                 heading_north_yaw, scale_factor, current_confidence,
                 distances, vp, link>>

\* Line 352.
CfStore ==
  /\ Running
  /\ cf.pc = "store"
  /\ current_confidence' = [level |-> data.tracker_confidence]
  /\ cf' = [cf EXCEPT !.pc = "text"]
  /\ UNCHANGED <<st, pc, cfg, pipe, vehicle, attempts, listeners, sched,
                 scale_thread, clock, frames, i,
                 current_time, data, H_T265Ref_T265body, H_aeroRef_aeroBody,
                 heading_north_yaw, scale_factor, distances, vp, link>>

\* Lines 353-359: the text notification.
CfText ==
  /\ Running
  /\ cf.pc = "text"
  /\ link' = [link EXCEPT !.statustext =
       [severity |-> 3,
        text |-> pose_data_confidence_level[data.tracker_confidence + 1]]]
  /\ cf' = [cf EXCEPT !.pc = "idle", !.text = TRUE]
  /\ UNCHANGED <<st, pc, cfg, pipe, vehicle, attempts, listeners, sched,
                 scale_thread, clock, frames, i,
                 current_time, data, H_T265Ref_T265body, H_aeroRef_aeroBody,
                 heading_north_yaw, scale_factor, current_confidence,
                 distances, vp>>

\* ------------------------------------------------- listener, scale thread

\* The assignment of att_msg_callback, lines 423-430: both branches store
\* the yaw of the message.
att_msg_callback(heading, yaw) ==
  IF heading = None THEN [yaw |-> yaw] ELSE [yaw |-> yaw]

\* An ATTITUDE message reaches the listener registered at line 496.
AttitudeMessage(Yaws) ==
  /\ "ATTITUDE" \in listeners
  /\ vehicle = "connected"
  /\ pc \notin {"crashed", "interrupted"}
  /\ \E yaw \in Yaws :
       heading_north_yaw' = att_msg_callback(heading_north_yaw, yaw)
  /\ UNCHANGED <<st, pc, cfg, pipe, vehicle, attempts, listeners, sched,
                 scale_thread, clock, frames, i, current_time, data,
                 H_T265Ref_T265body, H_aeroRef_aeroBody, scale_factor,
                 current_confidence, distances, vp, cf, link>>

\* One pass of the loop of scale_update, lines 433-437: float() of the line
\* entered, stored as it is; a line float() rejects ends the thread.
ScaleInput(Lines) ==
  /\ scale_thread = "running"
  /\ pc \notin {"crashed", "interrupted"}
  /\ \E line \in Lines :
       LET value == ParseFloat(line)
       IN IF value = ValueError
          THEN /\ scale_thread' = "dead"
               /\ UNCHANGED scale_factor
          ELSE /\ scale_factor' = value
               /\ UNCHANGED scale_thread
  /\ UNCHANGED <<st, pc, cfg, pipe, vehicle, attempts, listeners, sched, clock, frames, i, current_time, data, H_T265Ref_T265body,
                 H_aeroRef_aeroBody, heading_north_yaw, current_confidence,
                 distances, vp, cf, link>>

\* The two GPS texts only.
GlitchTexts == {"GPS Glitch", "GPS Glitch cleared"}

\* The texts of line 415, compared with == .
TriggerTexts ==
  {"GPS Glitch", "GPS Glitch cleared",
   "EKF2 IMU1 ext nav yaw alignment complete"}

\* A STATUSTEXT message reaches statustext_callback (lines 413-420), the
\* listener registered at line 492.  dronekit calls the listeners of one
\* message after the other from its receive thread.
StatusText(Texts) ==
  /\ "STATUSTEXT" \in listeners
  /\ vehicle = "connected"
  /\ pc \notin {"crashed", "interrupted"}
  /\ st.pc = "idle"
  /\ \E text \in Texts :
       st' = [pc |-> IF text \in TriggerTexts THEN "origin" ELSE "idle",
              text |-> text, sent |-> <<>>]
  /\ UNCHANGED <<pc, cfg, pipe, vehicle, attempts, listeners, sched,
                 scale_thread, clock, frames, i, current_time, data,
                 H_T265Ref_T265body, H_aeroRef_aeroBody, heading_north_yaw,
                 scale_factor, current_confidence, distances, vp, cf, link>>

\* set_default_global_origin, lines 362-371, called at line 419.
set_default_global_origin ==
  /\ st.pc = "origin"
  /\ vehicle = "connected"
  /\ pc \notin {"crashed", "interrupted"}
  /\ st' = [st EXCEPT !.pc = "home",
                      !.sent = Append(@, [msg |-> "SET_GPS_GLOBAL_ORIGIN",
                                          latitude |-> home_lat,
                                          longitude |-> home_lon,
                                          altitude |-> home_alt])]
  /\ UNCHANGED <<pc, cfg, pipe, vehicle, attempts, listeners, sched,
                 scale_thread, clock, frames, i, current_time, data,
                 H_T265Ref_T265body, H_aeroRef_aeroBody, heading_north_yaw,
                 scale_factor, current_confidence, distances, vp, cf, link>>

\* set_default_home_position, lines 374-399, called at line 420.
set_default_home_position ==
  /\ st.pc = "home"
  /\ vehicle = "connected"
  /\ pc \notin {"crashed", "interrupted"}
  /\ st' = [st EXCEPT !.pc = "idle",
                      !.sent = Append(@, [msg |-> "SET_HOME_POSITION",
                                          latitude |-> home_lat,
                                          longitude |-> home_lon,
                                          altitude |-> home_alt])]
  /\ UNCHANGED <<pc, cfg, pipe, vehicle, attempts, listeners, sched,
                 scale_thread, clock, frames, i, current_time, data,
                 H_T265Ref_T265body, H_aeroRef_aeroBody, heading_north_yaw,
                 scale_factor, current_confidence, distances, vp, cf, link>>

\* ------------------------------------------------------------------ inputs

Config(offset, compass, orientation, calib) ==
  [body_offset_enabled |-> offset, compass_enabled |-> compass,
   camera_orientation |-> orientation, scale_calib_enable |-> calib]

\* The settings of the source as it stands (lines 70, 73, 82), no calibration.
DefaultConfig == Config(0, 0, 0, FALSE)

Sample(t, q, c) == [translation |-> t, rotation |-> q, tracker_confidence |-> c]

\* One metre along the camera's x axis, not rotated, high confidence.
UnitSample == Sample(<<100, 0, 0>>, <<1, 0, 0, 0>>, 3)

\* A quarter turn about the camera's z axis, off the origin, low confidence.
TurnedSample == Sample(<<0, 200, 50>>, <<1, 0, 0, 1>>, 1)

Uniform(raw) == [kind |-> "uniform", a |-> raw, b |-> raw, edge |-> 0]

\* No valid match anywhere in the image.
BlankScene == Uniform(RawInvalid)

\* A wall at 20 pixels of disparity.
WallScene == Uniform(20 * DispScale)

\* No match in the rows above row 140, a wall at 20 pixels below.
RowEdgeScene == [kind |-> "rows", a |-> RawInvalid, b |-> 20 * DispScale, edge |-> 140]

\* A near wall (100 pixels) left of column 150, a wall at 20 pixels right of it.
ColEdgeScene == [kind |-> "cols", a |-> 100 * DispScale, b |-> 20 * DispScale, edge |-> 150]

\* A frame set in which a fisheye frame is missing.
MissingFisheye == [kind |-> "missing", a |-> 0, b |-> 0, edge |-> 0]

\* --------------------------------------------------------- specifications

Startup == RealsenseConnect \/ VehicleConnect \/ Setup

Acquire(Samples, Scenes) ==
  \/ WaitForFrames(Samples, Scenes)
  \/ PoseTime \/ PoseData \/ PoseTx \/ PoseTy \/ PoseTz
  \/ PoseMount \/ PoseOffset \/ PoseCompass
  \/ Fisheye \/ Fill \/ Finally \/ VehicleClose

VisionJob == VpCheck \/ VpEuler \/ VpTime \/ VpX \/ VpY \/ VpSend

ConfidenceJob == CfCheck \/ CfNumeric \/ CfCompare \/ CfStore \/ CfText

DepthScenes == {BlankScene, WallScene, RowEdgeScene}

\* The depth path: the acquisition loop and the distance job.
Init == InitWith({DefaultConfig, Config(1, 1, 0, FALSE)})

Next ==
  \/ Startup
  \/ Acquire({UnitSample}, DepthScenes)
  \/ send_distance_sensor_message

Spec == Init /\ [][Next]_vars

\* The pose path: the acquisition loop, the ATTITUDE listener and the
\* vision position job, for every setting of offset and compass.
InitVision ==
  InitWith({Config(o, c, 0, FALSE) : o \in {0, 1}, c \in {0, 1}})

NextVision ==
  \/ Startup
  \/ Acquire({TurnedSample}, {BlankScene})
  \/ AttitudeMessage({1})
  \/ VisionJob

SpecVision == InitVision /\ [][NextVision]_vars

\* The heading reference: the acquisition loop and the ATTITUDE listener.
InitCompass ==
  InitWith({Config(o, 1, m, FALSE) : o \in {0, 1}, m \in {0, 1}})

NextCompass ==
  \/ Startup
  \/ Acquire({UnitSample, TurnedSample}, {BlankScene})
  \/ AttitudeMessage({0, 1, 2})

SpecCompass == InitCompass /\ [][NextCompass]_vars

\* The confidence path: the acquisition loop and the confidence job.
InitConfidence == InitWith({DefaultConfig, Config(1, 1, 0, FALSE)})

NextConfidence ==
  \/ Startup
  \/ Acquire({Sample(<<100, 0, 0>>, <<1, 0, 0, 0>>, c) : c \in {1, 2}}, {BlankScene})
  \/ ConfidenceJob

SpecConfidence == InitConfidence /\ [][NextConfidence]_vars

\* The scale calibration: the acquisition loop and the scale thread.
ScaleLines ==
  {<<"2">>, <<"0">>, <<"-", "1">>, <<"n", "a", "n">>, <<"i", "n", "f">>, <<"2", "x">>}

InitScale == InitWith({Config(0, 0, 0, TRUE), Config(1, 1, 1, TRUE)})

NextScale ==
  \/ Startup
  \/ Acquire({UnitSample, TurnedSample}, {BlankScene})
  \/ ScaleInput(ScaleLines)

SpecScale == InitScale /\ [][NextScale]_vars

\* The scaling of the pose: the acquisition loop, the ATTITUDE listener and
\* the scale thread with an operator who enters 2, for every mount
\* orientation and offset setting and with the compass on.
InitScaling ==
  InitWith({Config(o, 0, m, TRUE) : o \in {0, 1}, m \in {0, 1}}
             \cup {Config(1, 1, 0, TRUE)})

NextScaling ==
  \/ Startup
  \/ Acquire({UnitSample, TurnedSample}, {BlankScene})
  \/ AttitudeMessage({1})
  \/ ScaleInput({<<"2">>})

SpecScaling == InitScaling /\ [][NextScaling]_vars

\* The texts the flight controller sends: the three triggers, and texts
\* that differ from a trigger by a character, by case, or altogether.
StatusTexts ==
  {"GPS Glitch", "GPS Glitch cleared",
   "EKF2 IMU1 ext nav yaw alignment complete",
   "GPS Glitch ", "gps glitch", "EKF2 IMU1 is using GPS"}

StatusTextListener ==
  StatusText(StatusTexts) \/ set_default_global_origin \/ set_default_home_position

\* The home setting: the acquisition loop and the STATUSTEXT listener.
InitStatus == InitWith({DefaultConfig, Config(1, 1, 0, FALSE)})

NextStatus ==
  \/ Startup
  \/ Acquire({UnitSample}, {BlankScene})
  \/ StatusTextListener

SpecStatus == InitStatus /\ [][NextStatus]_vars

\* The frame errors: the acquisition loop with well-formed and malformed
\* frame sets, and the ATTITUDE listener.
InitFrameError == InitWith({DefaultConfig, Config(1, 1, 0, FALSE)})

NextFrameError ==
  \/ Startup
  \/ Acquire({UnitSample}, {BlankScene, MissingFisheye})
  \/ AttitudeMessage({1})

SpecFrameError == InitFrameError /\ [][NextFrameError]_vars

\* The shutdown: the acquisition loop, the operator's interrupt, the
\* distance job and the vision position job.
InitShutdown == InitWith({DefaultConfig, Config(1, 1, 0, FALSE)})

NextShutdown ==
  \/ Startup
  \/ Acquire({UnitSample}, {BlankScene})
  \/ KeyboardInterrupt
  \/ send_distance_sensor_message
  \/ VisionJob

SpecShutdown == InitShutdown /\ [][NextShutdown]_vars

\* ------------------------------------------------------------------ claims

\* The profile the fill loop computes from a scene.
Profile(scene) == [s \in Sectors |-> SectorDistance(scene, s)]

\* C1: every distance report is computed from sectors written by one
\* acquisition cycle: the five sectors it averages never mix the previous
\* frame's values with the new frame's.
C1_ReportFromOneFrame ==
  (link.distance # None /\ 0 \notin link.distance.writers)
    => \/ Cardinality(link.distance.writers) = 1
       \/ \E scene \in DepthScenes :
            \A s \in CenterSectors : link.distance.read[s] = Profile(scene)[s]

\* The assignment that completes the pose under the settings in force.
FinalStage ==
  IF cfg.compass_enabled = 1 THEN "compass"
  ELSE IF cfg.body_offset_enabled = 1 THEN "offset"
  ELSE "mount"

\* C2: whatever the offset and compass settings, the vision position job
\* only ever reads the fully composed pose, never the pose as it is between
\* the mount transform and the enabled offset or compass correction.
C2_OnlyComposedPoseVisible ==
  /\ vp.pc \in {"time", "x", "y", "z"}
       => \A seen \in vp.seen : seen.stage = FinalStage
  /\ link.vision # None
       => \A seen \in link.vision.seen : seen.stage = FinalStage

\* C3: a run of the confidence job sends the text notification if and only
\* if the level of its numeric report differs from the level of the numeric
\* report of the run before (the first report counts as a change).
C3_TextIffLevelChanged ==
  (cf.pc = "idle" /\ cf.cur # None) => (cf.text <=> cf.prev # cf.cur)

\* C4: before the first frame set has reached the acquisition loop, no job
\* has sent anything on the link.
C4_NoSendBeforeFirstFrame ==
  clock = 0 =>
    /\ link.vision = None
    /\ link.distance = None
    /\ link.delta = None
    /\ link.statustext = None

\* C5: once a heading has been captured, no later ATTITUDE message changes
\* the stored reference.
C5_HeadingLatchedOnce ==
  [][heading_north_yaw # None => heading_north_yaw' = heading_north_yaw]_vars

\* C6: while a frame set without a pose sample is processed, the pose, the
\* stored pose data and the timestamp stay as they were, the loop goes on
\* through the fill to the next wait, and at the end of the cycle the
\* profile is the one of this frame set's scene.
C6_NoPoseCycle ==
  [][(frames' # None /\ frames'.pose = None)
       => /\ H_aeroRef_aeroBody' = H_aeroRef_aeroBody
          /\ data' = data
          /\ current_time' = current_time
          /\ pc' \in {"fisheye", "fill", "wait_frames"}
          /\ (pc = "fill" /\ pc' = "wait_frames")
               => distances' = Profile(frames.scene)]_vars

\* A cycle without a pose sample has completed after one with a pose sample:
\* the pose and the timestamp are still those of the first frame set.
C6_Witness ==
  /\ pc = "wait_frames"
  /\ clock = 2
  /\ frames.pose = None
  /\ H_aeroRef_aeroBody # None
  /\ H_aeroRef_aeroBody.frame = 1
  /\ current_time = 1
  /\ data = UnitSample
  /\ distances = Profile(frames.scene)

SumRead(m) == m.read[33] + m.read[34] + m.read[35] + m.read[36] + m.read[37]

\* C7 as stated: the distance sent is the mean of sectors 33..37, with the
\* range bounds 10 and 65.
C7_ExactMean ==
  link.distance # None =>
    /\ 5 * link.distance.current_distance = SumRead(link.distance)
    /\ link.distance.min_distance = 10
    /\ link.distance.max_distance = 65

\* C7 as amended: the distance sent is the mean of sectors 33..37 truncated
\* to a whole number of centimetres, with the range bounds 10 and 65; five
\* equal sectors are reported as their common value.
C7_TruncatedMean ==
  link.distance # None =>
    /\ 5 * link.distance.current_distance <= SumRead(link.distance)
    /\ SumRead(link.distance) < 5 * link.distance.current_distance + 5
    /\ link.distance.min_distance = 10
    /\ link.distance.max_distance = 65
    /\ (\A s \in CenterSectors : link.distance.read[s] = link.distance.read[33])
         => link.distance.current_distance = link.distance.read[33]

\* A report was sent, from sectors written by frame sets, whose five sectors
\* do not add up to a multiple of five.
C7_Witness ==
  /\ link.distance # None
  /\ 0 \notin link.distance.writers
  /\ SumRead(link.distance) % 5 # 0

\* The sectors the fill loop of the current frame set has written.
WrittenThisCycle(s) ==
  clock > 0 /\ (pc = "wait_frames" \/ (pc = "fill" /\ s < i))

\* C8: a sector sampled where the disparity is below the matcher's minimum
\* valid disparity holds the maximum reportable distance.
C8_InvalidIsMaxRange ==
  \A s \in Sectors :
    (WrittenThisCycle(s)
       /\ SceneRaw(frames.scene, s * SampleStep, SampleColumn) < min_disp * DispScale)
      => distances[s] = DistMax

\* C9: the scale factor the acquisition loop multiplies translations by is
\* greater than zero in every reachable state.
C9_ScalePositive == FPositive(scale_factor)

\* C10: the program leaves the connection phase only with the camera started
\* and the vehicle connected, or on an operator interrupt.
C10_LeavesConnectedOrInterrupted ==
  [][(pc \in {"realsense_connect", "vehicle_connect"}
        /\ pc' \notin {"realsense_connect", "vehicle_connect"})
       => \/ (pipe' = "started" /\ vehicle' = "connected")
          \/ pc' = "interrupted"]_vars

\* A step that hands a message to the link.
JobSends == send_distance_sensor_message \/ VpSend \/ CfNumeric \/ CfText

\* C11: once the release of the camera session and of the link has begun
\* after an operator interrupt, no job of the scheduler sends a message, and
\* the process ends with the camera session stopped and the link closed.
C11_NoSendAfterRelease ==
  [][/\ pc \in {"interrupt_close", "interrupted"} => ~JobSends
     /\ (pc = "interrupt_close" /\ pc' = "interrupted")
          => (pipe' = "stopped" /\ vehicle' = "closed")]_vars

\* C12: the timestamp, the position and the roll, pitch and yaw of every
\* vision position message come from one pose sample, whatever the acquisition
\* loop publishes while the job runs.
C12_ReportFromOneSample ==
  link.vision # None =>
    \A seen \in link.vision.seen : seen.frame = link.vision.usec

\* C13: the sectors the fill loop has written were all sampled on one image
\* row, at columns that increase with the sector index, inside the 300 by 300
\* grid of reprojected points.
C13_HorizontalFan ==
  \A s \in Sectors :
    WrittenThisCycle(s) =>
      /\ SampledPixel(s).row = SampledPixel(0).row
      /\ s > 0 => SampledPixel(s).col > SampledPixel(s - 1).col
      /\ SampledPixel(s).row \in 0..(GridRows - 1)
      /\ SampledPixel(s).col \in 0..(GridCols - 1)

\* The pose that lines 639-658 compose from one sample with one value of the
\* scale factor.
NavigationPose(sample, scale, config, yaw) ==
  LET Hb == [r \in 1..4 |-> [c \in 1..4 |->
               IF r < 4 /\ c = 4 THEN FMul(F(sample.translation[r]), scale)
               ELSE quaternion_matrix(sample.rotation)[r][c]]]
      mounted == MountCompose(Hb, config.camera_orientation)
      moved == IF config.body_offset_enabled = 1 THEN OffsetCompose(mounted)
               ELSE mounted
  IN IF config.compass_enabled = 1 THEN CompassCompose(moved, yaw) ELSE moved

\* The square of the length of the translation of a pose, in cm^2.
SquaredLength(H) ==
  H[1][4].v * H[1][4].v + H[2][4].v * H[2][4].v + H[3][4].v * H[3][4].v

\* The heading the compass correction uses (0 while there is none).
YawNow == IF heading_north_yaw = None THEN 0 ELSE heading_north_yaw.yaw

\* The pose of the current sample is complete.
PoseComplete ==
  /\ pc = "fisheye"
  /\ frames.pose # None
  /\ H_aeroRef_aeroBody # None
  /\ H_aeroRef_aeroBody.frame = clock

\* C14: when the pose of a sample was composed with scale factor s, the pose
\* of the same sample under the same settings with scale factor 2s has a
\* translation twice as long; and one metre along x, not rotated, forward
\* mount, scale 2, no offset, no compass gives 2 metres along one axis.
C14_DoublingScaleDoublesTranslation ==
  PoseComplete =>
    \A s \in {1, 2} :
      H_aeroRef_aeroBody.m = NavigationPose(data, F(s), cfg, YawNow)
        => /\ SquaredLength(NavigationPose(data, F(2 * s), cfg, YawNow))
                = 4 * SquaredLength(H_aeroRef_aeroBody.m)
           /\ (s = 2 /\ data = UnitSample /\ cfg = Config(0, 0, 0, TRUE))
                => /\ SquaredLength(H_aeroRef_aeroBody.m) = 200 * 200
                   /\ Cardinality({k \in 1..3 : H_aeroRef_aeroBody.m[k][4].v # 0}) = 1

\* C15: no step taken while a frame set is processed leaves the acquisition
\* loop: after a malformed frame set, or a pose sample with the compass enabled
\* and no heading yet, the loop waits for the next frame set.
C15_FrameErrorsSkipped ==
  [][(pc \in LoopPcs) => (pc' \in LoopPcs)]_vars

\* The two messages of one trigger text, in the order they are sent.
OriginThenHome ==
  << [msg |-> "SET_GPS_GLOBAL_ORIGIN", latitude |-> home_lat,
      longitude |-> home_lon, altitude |-> home_alt],
     [msg |-> "SET_HOME_POSITION", latitude |-> home_lat,
      longitude |-> home_lon, altitude |-> home_alt] >>

\* C16: when the listener has finished with a status text, it has sent one
\* set-global-origin message and then one set-home-position message, both with
\* the configured latitude, longitude and altitude, if the text is one of the
\* three trigger texts, and nothing otherwise; while it runs, what it has
\* sent so far is a prefix of that pair.
C16_OriginThenHome ==
  /\ st.pc = "idle" =>
       IF st.text = "GPS Glitch" \/ st.text = "GPS Glitch cleared"
          \/ st.text = "EKF2 IMU1 ext nav yaw alignment complete"
       THEN st.sent = OriginThenHome
       ELSE st.sent = <<>>
  /\ st.pc = "origin" => st.sent = <<>>
  /\ st.pc = "home" => st.sent = <<OriginThenHome[1]>>

\* The listener has finished with the yaw alignment text and has sent the
\* pair.
C16_Witness ==
  /\ st.pc = "idle"
  /\ st.text = "EKF2 IMU1 ext nav yaw alignment complete"
  /\ Len(st.sent) = 2

\* C17: in a run of the confidence job that sends the text notification,
\* the level of the numeric report, the level stored in current_confidence
\* and the level the text names are one level; and whenever the job is not
\* between the store and the text, the stored level is the one named by the
\* last text sent.
C17_OneLevelPerTick ==
  /\ (cf.pc = "idle" /\ cf.text) =>
       /\ current_confidence = cf.cur
       /\ link.statustext.text = pose_data_confidence_level[cf.cur.level + 1]
  /\ (cf.pc # "text" /\ current_confidence # None) =>
       /\ link.statustext # None
       /\ link.statustext.text
            = pose_data_confidence_level[current_confidence.level + 1]

====
